---- MODULE Spec2Model ----
(***************************************************************************)
(* A model of package web (SlyMarbo/web): the Server's port grouping and   *)
(* listener start-up (server.go), the ReverseProxy's registration and      *)
(* host routing, and the Site's ordered matcher chain (site.go).           *)
(*                                                                         *)
(* Strings are sequences of one-character strings.  Three specifications   *)
(* share the variables: Spec (Server.Serve and its listener tasks),        *)
(* ProxySpec (one ReverseProxy) and SiteSpec (one Site); ServingSpec is    *)
(* Spec with the requests routed by the tasks of shared ports.             *)
(***************************************************************************)
EXTENDS Integers, Sequences, FiniteSets, TLC

VARIABLES
    sites,      \* Server.sites: the sites added so far, in Add order
    pc,         \* position of the Serve call
    pending,    \* ports of portMap the range loop has not yet visited
    tasks,      \* the goroutines started by Serve, in start order
    bound,      \* per port, how many listeners have been bound
    ret,        \* the error Serve returned, NoErr before it returns
    p,          \* a ReverseProxy: its proxy map and NotFound field
    firstReg,   \* history: per key, the handler of its first registration call
    regOut,     \* outcome of the last Register/RegisterSite call
    resp,       \* the handlers invoked by the request being served by p
    site,       \* a Site: its handlers chain and notFound field
    siteOut,    \* outcome of the last request routed by the Site
    siteReg     \* the last registration call made on the Site

vars == <<sites, pc, pending, tasks, bound, ret, p, firstReg, regOut, resp, site, siteOut, siteReg>>

serverVars == <<sites, pc, pending, tasks, bound, ret>>
proxyVars == <<p, firstReg, regOut, resp>>
siteVars == <<site, siteOut, siteReg>>

(***************************************************************************)
(* Bounds of the model.                                                    *)
(***************************************************************************)
MaxSites == 4
MaxHostLen == 5
MaxChain == 2
MaxPathLen == 2

(***************************************************************************)
(* Strings.                                                                *)
(***************************************************************************)
Strings(chars, n) == UNION {[1..k -> chars] : k \in 0..n}

\* s[from:] of Go, from counted from 0.
Tail0(s, from) == SubSeq(s, from + 1, Len(s))

\* s[:to] of Go.
Head0(s, to) == SubSeq(s, 1, to)

\* strings.Index(s, c) for a one-byte c: the first position of c, from 0; -1 if absent.
IndexByte(s, c) ==
    IF \E i \in 1..Len(s) : s[i] = c
    THEN (CHOOSE i \in 1..Len(s) : s[i] = c /\ \A j \in 1..(i - 1) : s[j] # c) - 1
    ELSE -1

\* The last position of c in s, from 0; -1 if absent.
LastIndexByte(s, c) ==
    IF \E i \in 1..Len(s) : s[i] = c
    THEN (CHOOSE i \in 1..Len(s) : s[i] = c /\ \A j \in (i + 1)..Len(s) : s[j] # c) - 1
    ELSE -1

\* strings.HasSuffix(s, suffix)
HasSuffix(s, suffix) ==
    Len(s) >= Len(suffix) /\ SubSeq(s, Len(s) - Len(suffix) + 1, Len(s)) = suffix

\* strings.HasPrefix(s, prefix)
HasPrefix(s, prefix) ==
    Len(s) >= Len(prefix) /\ SubSeq(s, 1, Len(prefix)) = prefix

\* strings.Contains(s, substr)
Contains(s, substr) ==
    \E i \in 0..(Len(s) - Len(substr)) : SubSeq(s, i + 1, i + Len(substr)) = substr

Lower(c) == IF c = "A" THEN "a" ELSE c

\* strings.EqualFold(s, t): equality under case folding.
EqualFold(s, t) ==
    Len(s) = Len(t) /\ \A i \in 1..Len(s) : Lower(s[i]) = Lower(t[i])

\* stringEquals(s1, s2)
stringEquals(s1, s2) == s1 = s2

(***************************************************************************)
(* Handlers.  An http.Handler is a plain handler, a Site, or nil.          *)
(***************************************************************************)
FuncH(id) == [kind |-> "func", id |-> id]
SiteH(s) == [kind |-> "site", site |-> s]
NilH == [kind |-> "nil"]

(***************************************************************************)
(* net.SplitHostPort, as ReverseProxy.ServeHTTP calls it.                  *)
(***************************************************************************)
SplitErr == [ok |-> FALSE, host |-> <<>>, port |-> <<>>]

\* The checks after the host has been cut out: no '[' from j on, no ']' from k on.
SplitRest(hostport, host, i, j, k) ==
    IF IndexByte(Tail0(hostport, j), "[") >= 0 THEN SplitErr
    ELSE IF IndexByte(Tail0(hostport, k), "]") >= 0 THEN SplitErr
    ELSE [ok |-> TRUE, host |-> host, port |-> Tail0(hostport, i + 1)]

SplitHostPort(hostport) ==
    LET i == LastIndexByte(hostport, ":") IN
    IF i < 0 THEN SplitErr
    ELSE IF hostport[1] = "["
    THEN LET end == IndexByte(hostport, "]") IN
         IF end < 0 THEN SplitErr
         ELSE IF end + 1 = Len(hostport) THEN SplitErr
         ELSE IF end + 1 # i THEN SplitErr
         ELSE SplitRest(hostport, SubSeq(hostport, 2, end), i, 1, end + 1)
    ELSE IF IndexByte(Head0(hostport, i), ":") >= 0 THEN SplitErr
    ELSE SplitRest(hostport, Head0(hostport, i), i, 0, 0)

(***************************************************************************)
(* ReverseProxy.                                                           *)
(***************************************************************************)
HostChars == {"a", "b", ":", "[", "]"}
Hosts == Strings(HostChars, MaxHostLen)

\* Domain keys: "a" stands for example.com, "ba" for a name that ends with it.
Keys == {<<"a">>, <<"b", "a">>}
PlainHandlers == {FuncH("A"), FuncH("B")}
NotFoundH == FuncH("NF")

\* The sites RegisterSite is called with.
ProxySites == {[name |-> k, port |-> 80, auth |-> FALSE, spdy |-> FALSE] : k \in Keys}

EmptyMap == [k \in {} |-> NilH]

MapPut(m, k, v) == [x \in DOMAIN m \cup {k} |-> IF x = k THEN v ELSE m[x]]

\* A constructor that installs a not-found handler.
NewProxyWithNotFound == [proxy |-> EmptyMap, NotFound |-> FuncH("NF")]

NewProxy == [proxy |-> EmptyMap, NotFound |-> NilH]

\* The overwriting registration (no duplicate check).
RegisterOverwrite(pr, domain, h) ==
    [p |-> [pr EXCEPT !.proxy = MapPut(@, domain, h)], panicked |-> FALSE]

\* ReverseProxy.Register: the proxy afterwards and whether the call panicked.
Register(pr, domain, h) ==
    IF domain \in DOMAIN pr.proxy
    THEN [p |-> pr, panicked |-> TRUE]
    ELSE [p |-> [pr EXCEPT !.proxy = MapPut(@, domain, h)], panicked |-> FALSE]

\* A RegisterSite in which a later site replaces the one registered under its name.
RegisterSiteOverwrite(pr, s) ==
    [p |-> [pr EXCEPT !.proxy = MapPut(@, s.name, SiteH(s))], panicked |-> FALSE]

\* ReverseProxy.RegisterSite
RegisterSite(pr, s) ==
    IF s.name \in DOMAIN pr.proxy
    THEN [p |-> pr, panicked |-> TRUE]
    ELSE [p |-> [pr EXCEPT !.proxy = MapPut(@, s.name, SiteH(s))], panicked |-> FALSE]

\* The orders in which a range over a map with key set S may visit the keys.
Orders(S) ==
    {o \in [1..Cardinality(S) -> S] : \A i, j \in 1..Cardinality(S) : o[i] = o[j] => i = j}

Invoke(via, key, h) == [via |-> via, key |-> key, h |-> h]

\* The fallback without the nil check.
CallNotFoundUnchecked(pr) == <<Invoke("notfound", <<>>, pr.NotFound)>>

\* The fallback at the end of ServeHTTP and in its parse-error branch.
CallNotFound(pr) ==
    IF pr.NotFound # NilH THEN <<Invoke("notfound", <<>>, pr.NotFound)>> ELSE <<>>

\* The loop without the return after the first match.
RECURSIVE ScanDomainsNoReturn(_, _, _, _)
ScanDomainsNoReturn(pr, host, order, i) ==
    IF i > Len(order) THEN CallNotFound(pr)
    ELSE IF HasSuffix(host, order[i])
         THEN <<Invoke("registered", order[i], pr.proxy[order[i]])>>
              \o ScanDomainsNoReturn(pr, host, order, i + 1)
         ELSE ScanDomainsNoReturn(pr, host, order, i + 1)

\* The range loop of ServeHTTP from position i of the visiting order: the
\* handler of the first visited key the host ends with, then return.
RECURSIVE ScanDomains(_, _, _, _)
ScanDomains(pr, host, order, i) ==
    IF i > Len(order) THEN CallNotFound(pr)
    ELSE IF HasSuffix(host, order[i])
         THEN <<Invoke("registered", order[i], pr.proxy[order[i]])>>
         ELSE ScanDomains(pr, host, order, i + 1)

\* ServeHTTP that routes by the raw Host header when it cannot be split.
ProxyRouteIgnoreErr(pr, rhost, order) ==
    IF IndexByte(rhost, ":") >= 0
    THEN LET sp == SplitHostPort(rhost) IN
         IF ~sp.ok THEN ScanDomains(pr, rhost, order, 1) ELSE ScanDomains(pr, sp.host, order, 1)
    ELSE ScanDomains(pr, rhost, order, 1)

\* ReverseProxy.ServeHTTP for r.Host = rhost, the map visited in the given
\* order: the sequence of handler invocations it makes.
ProxyRoute(pr, rhost, order) ==
    IF IndexByte(rhost, ":") >= 0
    THEN LET sp == SplitHostPort(rhost) IN
         IF ~sp.ok THEN CallNotFound(pr) ELSE ScanDomains(pr, sp.host, order, 1)
    ELSE ScanDomains(pr, rhost, order, 1)

NoResp == [served |-> FALSE, host |-> <<>>, invoked |-> <<>>]
NoReg == [called |-> FALSE, key |-> <<>>, h |-> NilH, panicked |-> FALSE]

ProxyInit ==
    /\ p = NewProxy
    /\ firstReg = EmptyMap
    /\ regOut = NoReg
    /\ resp = NoResp

RecordFirst(domain, h) ==
    firstReg' = IF domain \in DOMAIN firstReg THEN firstReg ELSE MapPut(firstReg, domain, h)

\* No call on the proxy is in progress.
ProxyIdle == resp = NoResp /\ regOut = NoReg

\* A call of Register(domain, h).
ProxyRegister(domain, h) ==
    /\ ProxyIdle
    /\ LET r == Register(p, domain, h) IN
        /\ p' = r.p
        /\ regOut' = [called |-> TRUE, key |-> domain, h |-> h, panicked |-> r.panicked]
    /\ RecordFirst(domain, h)
    /\ UNCHANGED <<resp, serverVars, siteVars>>

\* A call of RegisterSite(s).
ProxyRegisterSite(s) ==
    /\ ProxyIdle
    /\ LET r == RegisterSite(p, s) IN
        /\ p' = r.p
        /\ regOut' = [called |-> TRUE, key |-> s.name, h |-> SiteH(s), panicked |-> r.panicked]
    /\ RecordFirst(s.name, SiteH(s))
    /\ UNCHANGED <<resp, serverVars, siteVars>>

\* An assignment to the exported field NotFound.
ProxySetNotFound(h) ==
    /\ ProxyIdle
    /\ p' = [p EXCEPT !.NotFound = h]
    /\ UNCHANGED <<firstReg, regOut, resp, serverVars, siteVars>>

\* ServeHTTP for a request with Host header rhost.
ProxyServeHTTP(rhost) ==
    /\ ProxyIdle
    /\ \E order \in Orders(DOMAIN p.proxy) :
        resp' = [served |-> TRUE, host |-> rhost, invoked |-> ProxyRoute(p, rhost, order)]
    /\ UNCHANGED <<p, firstReg, regOut, serverVars, siteVars>>

\* The call in progress is over (a panic of Register is recovered by the caller).
ProxyCallDone ==
    /\ ~ProxyIdle
    /\ resp' = NoResp
    /\ regOut' = NoReg
    /\ UNCHANGED <<p, firstReg, serverVars, siteVars>>

ProxyNext ==
    \/ \E k \in Keys, h \in PlainHandlers : ProxyRegister(k, h)
    \/ \E s \in ProxySites : ProxyRegisterSite(s)
    \/ \E h \in {NilH, NotFoundH} : ProxySetNotFound(h)
    \/ ProxyIdle /\ \E rhost \in Hosts : ProxyServeHTTP(rhost)
    \/ ProxyCallDone

(***************************************************************************)
(* Server.                                                                 *)
(***************************************************************************)
Ports == {80, 443}

\* The sites Add is called with.  SPDY is read only for a site with a
\* certificate pair, so it is enumerated only for those.
SiteInputs ==
    {s \in [name : Keys, port : Ports, auth : BOOLEAN, spdy : BOOLEAN] : s.spdy => s.auth}

NoErr == [kind |-> "none", port |-> 0, idx |-> 0, via |-> "none"]
Err(kind, port, idx, via) == [kind |-> kind, port |-> port, idx |-> idx, via |-> via]

\* A collecting loop that appends every site to the list of every port.
GroupAnyPort(ss, port) == ss

\* portMap[port] after the collecting loop: the sites of that port, in Add order.
Group(ss, port) == LET OnPort(s) == s.port = port IN SelectSeq(ss, OnPort)

PortsOf(ss) == {ss[i].port : i \in 1..Len(ss)}

\* The check that all sites on one port use TLS or none do.
Mixed(group) == \E i \in 2..Len(group) : group[1].auth # group[i].auth

\* A single-site branch that does not look at the site's SPDY field.
SingleTaskIgnoreSPDY(s) ==
    [port |-> s.port,
     fn |-> IF s.auth THEN "serveHTTPS" ELSE "serveHTTP",
     handler |-> SiteH(s),
     tls |-> s.auth,
     protos |-> IF s.auth THEN {"http/1.1"} ELSE {},
     certs |-> {},
     state |-> "starting",
     err |-> NoErr]

\* The goroutine started for a group of one site.
SingleTask(s) ==
    [port |-> s.port,
     fn |-> IF s.auth THEN (IF s.spdy THEN "serveSPDY" ELSE "serveHTTPS") ELSE "serveHTTP",
     handler |-> SiteH(s),
     tls |-> s.auth,
     protos |-> IF s.auth THEN (IF s.spdy THEN {"spdy", "http/1.1"} ELSE {"http/1.1"}) ELSE {},
     certs |-> {},
     state |-> "starting",
     err |-> NoErr]

\* The goroutine started for a group of several sites; its listener is bound
\* already, and certs are the sites of the group whose pair tlsConf holds.
ManyTask(port, pr, auth, loaded) ==
    [port |-> port,
     fn |-> "serveMany",
     handler |-> [kind |-> "proxy", p |-> pr],
     tls |-> auth,
     protos |-> IF auth THEN {"http/1.1"} ELSE {},
     certs |-> loaded,
     state |-> "serving",
     err |-> NoErr]

\* The loop that leaves out a site whose pair does not load and goes on.
RECURSIVE SetupLoopSkipBad(_, _, _, _, _)
SetupLoopSkipBad(group, i, pr, loaded, certOK) ==
    IF i > Len(group) THEN [outcome |-> "ok", idx |-> 0, proxy |-> pr, loaded |-> loaded]
    ELSE LET r == RegisterSite(pr, group[i]) IN
         IF r.panicked THEN [outcome |-> "panic", idx |-> i, proxy |-> pr, loaded |-> loaded]
         ELSE IF group[1].auth
              THEN IF ~certOK[i]
                   THEN SetupLoopSkipBad(group, i + 1, r.p, loaded, certOK)
                   ELSE SetupLoopSkipBad(group, i + 1, r.p, loaded \cup {i}, certOK)
              ELSE SetupLoopSkipBad(group, i + 1, r.p, loaded, certOK)

\* The loop that registers each site of a group and, under TLS, loads its
\* certificate pair; certOK[i] tells whether the pair of site i loads.
RECURSIVE SetupLoop(_, _, _, _, _)
SetupLoop(group, i, pr, loaded, certOK) ==
    IF i > Len(group) THEN [outcome |-> "ok", idx |-> 0, proxy |-> pr, loaded |-> loaded]
    ELSE LET r == RegisterSite(pr, group[i]) IN
         IF r.panicked THEN [outcome |-> "panic", idx |-> i, proxy |-> pr, loaded |-> loaded]
         ELSE IF group[1].auth
              THEN IF ~certOK[i]
                   THEN [outcome |-> "cert", idx |-> i, proxy |-> r.p, loaded |-> loaded]
                   ELSE SetupLoop(group, i + 1, r.p, loaded \cup {i}, certOK)
              ELSE SetupLoop(group, i + 1, r.p, loaded, certOK)

ServerInit ==
    /\ sites = <<>>
    /\ pc = "config"
    /\ pending = {}
    /\ tasks = <<>>
    /\ bound = [port \in Ports |-> 0]
    /\ ret = NoErr

\* Server.Add
Add(s) ==
    /\ pc = "config"
    /\ Len(sites) < MaxSites
    /\ sites' = Append(sites, s)
    /\ UNCHANGED <<pc, pending, tasks, bound, ret, proxyVars, siteVars>>

\* Serve is called: the sites are collected by port.
ServeCollect ==
    /\ pc = "config"
    /\ pc' = "startup"
    /\ pending' = PortsOf(sites)
    /\ UNCHANGED <<sites, tasks, bound, ret, proxyVars, siteVars>>

\* One iteration of the range over portMap, for a group of one site.
ServeSingle(port) ==
    /\ pc = "startup"
    /\ port \in pending
    /\ Len(Group(sites, port)) = 1
    /\ tasks' = Append(tasks, SingleTask(Group(sites, port)[1]))
    /\ pending' = pending \ {port}
    /\ UNCHANGED <<sites, pc, bound, ret, proxyVars, siteVars>>

\* An iteration that stops the tasks started so far before it returns the
\* error of the mixed group.
ServeMixedRollback(port) ==
    /\ pc = "startup"
    /\ port \in pending
    /\ Len(Group(sites, port)) > 1
    /\ Mixed(Group(sites, port))
    /\ pc' = "returned"
    /\ ret' = Err("mixed", port, 0, "serve")
    /\ tasks' = [i \in 1..Len(tasks) |-> [tasks[i] EXCEPT !.state = "stopped"]]
    /\ UNCHANGED <<sites, pending, bound, proxyVars, siteVars>>

\* An iteration that goes on to the next group although the TLS usage is mixed.
ServeMixedGoOn(port) ==
    /\ pc = "startup"
    /\ port \in pending
    /\ Len(Group(sites, port)) > 1
    /\ Mixed(Group(sites, port))
    /\ pending' = pending \ {port}
    /\ ret' = Err("mixed", port, 0, "serve")
    /\ UNCHANGED <<sites, pc, tasks, bound, proxyVars, siteVars>>

\* An iteration for a group of several sites with mixed TLS usage.
ServeMixed(port) ==
    /\ pc = "startup"
    /\ port \in pending
    /\ Len(Group(sites, port)) > 1
    /\ Mixed(Group(sites, port))
    /\ pc' = "returned"
    /\ ret' = Err("mixed", port, 0, "serve")
    /\ UNCHANGED <<sites, pending, tasks, bound, proxyVars, siteVars>>

\* The guard shared by the iterations for a group of several sites with
\* uniform TLS usage.
ManyGroup(port) ==
    /\ pc = "startup"
    /\ port \in pending
    /\ Len(Group(sites, port)) > 1
    /\ ~Mixed(Group(sites, port))

Setup(port, certOK) == SetupLoop(Group(sites, port), 1, NewProxy, {}, certOK)

CertChoices(port) == [1..Len(Group(sites, port)) -> BOOLEAN]

\* An iteration in which RegisterSite panics: Serve does not return.
ServeManyPanic(port) ==
    /\ ManyGroup(port)
    /\ \E certOK \in CertChoices(port) : Setup(port, certOK).outcome = "panic"
    /\ pc' = "panicked"
    /\ UNCHANGED <<sites, pending, tasks, bound, ret, proxyVars, siteVars>>

\* An iteration in which tls.LoadX509KeyPair fails for a site of the group.
ServeManyCertFail(port) ==
    /\ ManyGroup(port)
    /\ \E certOK \in CertChoices(port) :
        LET r == Setup(port, certOK) IN
        /\ r.outcome = "cert"
        /\ ret' = Err("cert", port, r.idx, "serve")
    /\ pc' = "returned"
    /\ UNCHANGED <<sites, pending, tasks, bound, proxyVars, siteVars>>

\* An iteration that goes on to the next group although net.Listen failed.
ServeManyListenFailGoOn(port) ==
    /\ ManyGroup(port)
    /\ \E certOK \in CertChoices(port) : Setup(port, certOK).outcome = "ok"
    /\ pending' = pending \ {port}
    /\ ret' = Err("bind", port, 0, "serve")
    /\ UNCHANGED <<sites, pc, tasks, bound, proxyVars, siteVars>>

\* An iteration in which net.Listen fails.
ServeManyListenFail(port) ==
    /\ ManyGroup(port)
    /\ \E certOK \in CertChoices(port) : Setup(port, certOK).outcome = "ok"
    /\ pc' = "returned"
    /\ ret' = Err("bind", port, 0, "serve")
    /\ UNCHANGED <<sites, pending, tasks, bound, proxyVars, siteVars>>

\* An iteration that binds the listener and starts serveMany.
ServeManyStart(port) ==
    /\ ManyGroup(port)
    /\ \E certOK \in CertChoices(port) :
        LET r == Setup(port, certOK) IN
        /\ r.outcome = "ok"
        /\ tasks' = Append(tasks, ManyTask(port, r.proxy, Group(sites, port)[1].auth, r.loaded))
    /\ bound' = [bound EXCEPT ![port] = @ + 1]
    /\ pending' = pending \ {port}
    /\ UNCHANGED <<sites, pc, ret, proxyVars, siteVars>>

\* The range loop is over: Serve blocks on the receive from errChan.
ServeBlock ==
    /\ pc = "startup"
    /\ pending = {}
    /\ pc' = "waiting"
    /\ UNCHANGED <<sites, pending, tasks, bound, ret, proxyVars, siteVars>>

\* A receive in a loop that keeps the last error instead of returning the first.
ServeReceiveGoOn(i) ==
    /\ pc = "waiting"
    /\ tasks[i].state = "sending"
    /\ ret' = [tasks[i].err EXCEPT !.via = "chan"]
    /\ pc' = IF \E j \in 1..Len(tasks) : j # i /\ tasks[j].state \in {"starting", "serving", "sending"}
             THEN "waiting" ELSE "returned"
    /\ tasks' = [tasks EXCEPT ![i].state = "delivered"]
    /\ UNCHANGED <<sites, pending, bound, proxyVars, siteVars>>

\* The send of task i and the receive of Serve meet: Serve returns the error.
ServeReceive(i) ==
    /\ pc = "waiting"
    /\ tasks[i].state = "sending"
    /\ pc' = "returned"
    /\ ret' = [tasks[i].err EXCEPT !.via = "chan"]
    /\ tasks' = [tasks EXCEPT ![i].state = "delivered"]
    /\ UNCHANGED <<sites, pending, bound, proxyVars, siteVars>>

\* The task of a single site loads its pair (under TLS) and binds its
\* listener, inside ListenAndServe or ListenAndServeTLS.
TaskListen(i) ==
    /\ tasks[i].state = "starting"
    /\ \/ /\ tasks' = [tasks EXCEPT ![i].state = "serving"]
          /\ bound' = [bound EXCEPT ![tasks[i].port] = @ + 1]
       \/ /\ tasks' = [tasks EXCEPT ![i].state = "sending",
                                    ![i].err = Err("bind", tasks[i].port, 0, "task")]
          /\ UNCHANGED bound
       \/ /\ tasks[i].tls
          /\ tasks' = [tasks EXCEPT ![i].state = "sending",
                                    ![i].err = Err("cert", tasks[i].port, 0, "task")]
          /\ UNCHANGED bound
    /\ UNCHANGED <<sites, pc, pending, ret, proxyVars, siteVars>>

\* A task whose send completes at once, into a buffered channel.
TaskFailBuffered(i) ==
    /\ tasks[i].state = "serving"
    /\ tasks' = [tasks EXCEPT ![i].state = "sent",
                              ![i].err = Err("runtime", tasks[i].port, 0, "task")]
    /\ UNCHANGED <<sites, pc, pending, bound, ret, proxyVars, siteVars>>

\* The serving loop of task i ends with an error, which the task sends.
TaskFail(i) ==
    /\ tasks[i].state = "serving"
    /\ tasks' = [tasks EXCEPT ![i].state = "sending",
                              ![i].err = Err("runtime", tasks[i].port, 0, "task")]
    /\ UNCHANGED <<sites, pc, pending, bound, ret, proxyVars, siteVars>>

\* A task that sends its error on errChan even when the error is nil.
TaskExitSendsNil(i) ==
    /\ tasks[i].state = "serving"
    /\ tasks' = [tasks EXCEPT ![i].state = "sending"]
    /\ UNCHANGED <<sites, pc, pending, bound, ret, proxyVars, siteVars>>

\* The serving loop of task i ends with a nil error: the task sends nothing.
TaskExit(i) ==
    /\ tasks[i].state = "serving"
    /\ tasks' = [tasks EXCEPT ![i].state = "exited"]
    /\ UNCHANGED <<sites, pc, pending, bound, ret, proxyVars, siteVars>>

\* The Host headers of the requests that reach the tasks: one that ends with
\* both names a site may have, one that ends with neither, and one that ends
\* with a name and cannot be split into host and port.
ServeHosts == {<<"b", "a">>, <<"b">>, <<"a", ":", ":", "a">>}

\* A serveMany task that stores the handler it routed to under the request's
\* host, to find it at once the next time.
TaskServeHTTPCaching(i, rhost) ==
    /\ tasks[i].fn = "serveMany"
    /\ tasks[i].state = "serving"
    /\ ProxyIdle
    /\ \E order \in Orders(DOMAIN tasks[i].handler.p.proxy) :
        LET invoked == ProxyRoute(tasks[i].handler.p, rhost, order) IN
        /\ resp' = [served |-> TRUE, host |-> rhost, invoked |-> invoked, task |-> i]
        /\ tasks' = IF invoked = <<>> THEN tasks
                    ELSE [tasks EXCEPT ![i].handler.p.proxy = MapPut(@, rhost, invoked[1].h)]
    /\ UNCHANGED <<sites, pc, pending, bound, ret, p, firstReg, regOut, siteVars>>

\* The server of a serveMany task passes a request with Host header rhost to
\* the task's ReverseProxy.
TaskServeHTTP(i, rhost) ==
    /\ tasks[i].fn = "serveMany"
    /\ tasks[i].state = "serving"
    /\ ProxyIdle
    /\ \E order \in Orders(DOMAIN tasks[i].handler.p.proxy) :
        resp' = [served |-> TRUE, host |-> rhost,
                 invoked |-> ProxyRoute(tasks[i].handler.p, rhost, order),
                 task |-> i]
    /\ UNCHANGED <<p, firstReg, regOut, serverVars, siteVars>>

ServerNext ==
    \/ \E s \in SiteInputs : Add(s)
    \/ ServeCollect
    \/ \E port \in Ports : ServeSingle(port)
    \/ \E port \in Ports : ServeMixed(port)
    \/ \E port \in Ports : ServeManyPanic(port)
    \/ \E port \in Ports : ServeManyCertFail(port)
    \/ \E port \in Ports : ServeManyListenFail(port)
    \/ \E port \in Ports : ServeManyStart(port)
    \/ ServeBlock
    \/ \E i \in 1..Len(tasks) : ServeReceive(i)
    \/ \E i \in 1..Len(tasks) : TaskListen(i)
    \/ \E i \in 1..Len(tasks) : TaskFail(i)
    \/ \E i \in 1..Len(tasks) : TaskExit(i)

\* Serve, its tasks, and the requests the serveMany tasks route.
ServingNext ==
    \/ ServerNext
    \/ \E i \in 1..Len(tasks), rhost \in ServeHosts : TaskServeHTTP(i, rhost)
    \/ ProxyCallDone

(***************************************************************************)
(* Site.                                                                   *)
(***************************************************************************)
PathChars == {"/", "a", "A"}
Paths == Strings(PathChars, MaxPathLen)
Patterns == {<<"/">>, <<"/", "a">>}
PatternLists == UNION {[1..n -> Patterns] : n \in 0..2}
SiteHandlers == {FuncH("B"), FuncH("C")}

\* The predicates Match is called with: "short" holds of paths of at most one byte.
CustomFuncs == {"short"}

\* NewSite(name, port, notFound); NewSecureSite differs in auth alone.
NewSite(name, port, notFound) ==
    [Name |-> name, Port |-> port, auth |-> FALSE, handlers |-> <<>>, notFound |-> notFound]

\* makeMatchFunc(s1, m): the closure that calls m(s1, s2) on a request path s2.
makeMatchFunc(s1, m) == [m |-> m, s1 |-> s1]

AlwaysFunc == [m |-> "always", s1 |-> <<>>]

\* A call matchFunc(s2).
CallMatch(matchFunc, s2) ==
    CASE matchFunc.m = "always" -> TRUE
      [] matchFunc.m = "strings.Contains" -> Contains(matchFunc.s1, s2)
      [] matchFunc.m = "stringEquals" -> stringEquals(matchFunc.s1, s2)
      [] matchFunc.m = "strings.EqualFold" -> EqualFold(matchFunc.s1, s2)
      [] matchFunc.m = "strings.HasPrefix" -> HasPrefix(matchFunc.s1, s2)
      [] matchFunc.m = "strings.HasSuffix" -> HasSuffix(matchFunc.s1, s2)
      [] matchFunc.m = "short" -> Len(s2) <= 1

Matcher(matchFunc, handler) == [Match |-> matchFunc, Handler |-> handler]

\* A registration loop that puts each new Matcher at the front of the chain.
RECURSIVE AppendPatternsFront(_, _, _, _)
AppendPatternsFront(hs, handler, patterns, m) ==
    IF patterns = <<>> THEN hs
    ELSE AppendPatternsFront(<<Matcher(makeMatchFunc(Head(patterns), m), handler)>> \o hs,
                             handler, Tail(patterns), m)

\* The loop of the pattern-taking registrations: one Matcher per pattern, appended in order.
RECURSIVE AppendPatterns(_, _, _, _)
AppendPatterns(hs, handler, patterns, m) ==
    IF patterns = <<>> THEN hs
    ELSE AppendPatterns(Append(hs, Matcher(makeMatchFunc(Head(patterns), m), handler)),
                        handler, Tail(patterns), m)

SiteInvoke(idx, h) == [idx |-> idx, h |-> h]

\* Site.ServeHTTP from entry i of the chain: the invocations made and whether
\* the call panicked (s.notFound is called even when it is nil).
RECURSIVE SiteRouteFrom(_, _, _)
SiteRouteFrom(s, path, i) ==
    IF i > Len(s.handlers)
    THEN IF s.notFound = NilH
         THEN [invoked |-> <<>>, panicked |-> TRUE]
         ELSE [invoked |-> <<SiteInvoke(0, s.notFound)>>, panicked |-> FALSE]
    ELSE IF CallMatch(s.handlers[i].Match, path)
         THEN [invoked |-> <<SiteInvoke(i, s.handlers[i].Handler)>>, panicked |-> FALSE]
         ELSE SiteRouteFrom(s, path, i + 1)

SiteRoute(s, path) == SiteRouteFrom(s, path, 1)

NoOut == [served |-> FALSE, path |-> <<>>, invoked |-> <<>>, panicked |-> FALSE]

\* A registration call: the method, its handler and its patterns.
NoCall == [called |-> FALSE, op |-> "none", handler |-> NilH, patterns |-> <<>>]
Call(op, handler, patterns) ==
    [called |-> TRUE, op |-> op, handler |-> handler, patterns |-> patterns]

SiteInit ==
    /\ site \in {NewSite(<<"a">>, 80, nf) : nf \in {NilH, NotFoundH}}
    /\ siteOut = NoOut
    /\ siteReg = NoCall

\* No call on the Site is in progress.
SiteQuiet == siteOut = NoOut /\ siteReg = NoCall

SiteRoom(n) == SiteQuiet /\ Len(site.handlers) + n <= MaxChain

\* Site.Always
Always(handler) ==
    /\ SiteRoom(1)
    /\ site' = [site EXCEPT !.handlers = Append(@, Matcher(AlwaysFunc, handler))]
    /\ siteReg' = Call("Always", handler, <<>>)
    /\ UNCHANGED <<siteOut, serverVars, proxyVars>>

\* Site.Contains
SiteContains(handler, patterns) ==
    /\ SiteRoom(Len(patterns))
    /\ site' = [site EXCEPT !.handlers = AppendPatterns(@, handler, patterns, "strings.Contains")]
    /\ siteReg' = Call("Contains", handler, patterns)
    /\ UNCHANGED <<siteOut, serverVars, proxyVars>>

\* Site.Equals
SiteEquals(handler, patterns) ==
    /\ SiteRoom(Len(patterns))
    /\ site' = [site EXCEPT !.handlers = AppendPatterns(@, handler, patterns, "stringEquals")]
    /\ siteReg' = Call("Equals", handler, patterns)
    /\ UNCHANGED <<siteOut, serverVars, proxyVars>>

\* Site.EqualFold
SiteEqualFold(handler, patterns) ==
    /\ SiteRoom(Len(patterns))
    /\ site' = [site EXCEPT !.handlers = AppendPatterns(@, handler, patterns, "strings.EqualFold")]
    /\ siteReg' = Call("EqualFold", handler, patterns)
    /\ UNCHANGED <<siteOut, serverVars, proxyVars>>

\* Site.HasPrefix
SiteHasPrefix(handler, patterns) ==
    /\ SiteRoom(Len(patterns))
    /\ site' = [site EXCEPT !.handlers = AppendPatterns(@, handler, patterns, "strings.HasPrefix")]
    /\ siteReg' = Call("HasPrefix", handler, patterns)
    /\ UNCHANGED <<siteOut, serverVars, proxyVars>>

\* Site.HasSuffix
SiteHasSuffix(handler, patterns) ==
    /\ SiteRoom(Len(patterns))
    /\ site' = [site EXCEPT !.handlers = AppendPatterns(@, handler, patterns, "strings.HasSuffix")]
    /\ siteReg' = Call("HasSuffix", handler, patterns)
    /\ UNCHANGED <<siteOut, serverVars, proxyVars>>

\* Site.Match
SiteMatch(handler, matchFunc) ==
    /\ SiteRoom(1)
    /\ site' = [site EXCEPT !.handlers = Append(@, Matcher([m |-> matchFunc, s1 |-> <<>>], handler))]
    /\ siteReg' = Call("Match", handler, <<>>)
    /\ UNCHANGED <<siteOut, serverVars, proxyVars>>

\* Site.ServeHTTP for a request with URL path `path`.
SiteServeHTTP(path) ==
    /\ SiteQuiet
    /\ LET r == SiteRoute(site, path) IN
        siteOut' = [served |-> TRUE, path |-> path, invoked |-> r.invoked, panicked |-> r.panicked]
    /\ UNCHANGED <<site, siteReg, serverVars, proxyVars>>

\* The call is over (a panic of the handler goroutine is recovered by net/http).
SiteExchangeDone ==
    /\ ~SiteQuiet
    /\ siteOut' = NoOut
    /\ siteReg' = NoCall
    /\ UNCHANGED <<site, serverVars, proxyVars>>

SiteNext ==
    \/ \E h \in SiteHandlers : Always(h)
    \/ \E h \in SiteHandlers, ps \in PatternLists : SiteContains(h, ps)
    \/ \E h \in SiteHandlers, ps \in PatternLists : SiteEquals(h, ps)
    \/ \E h \in SiteHandlers, ps \in PatternLists : SiteEqualFold(h, ps)
    \/ \E h \in SiteHandlers, ps \in PatternLists : SiteHasPrefix(h, ps)
    \/ \E h \in SiteHandlers, ps \in PatternLists : SiteHasSuffix(h, ps)
    \/ \E h \in SiteHandlers, f \in CustomFuncs : SiteMatch(h, f)
    \/ SiteQuiet /\ \E path \in Paths : SiteServeHTTP(path)
    \/ SiteExchangeDone

(***************************************************************************)
(* The specifications.                                                     *)
(***************************************************************************)
\* The Site the Server and ReverseProxy specifications leave untouched.
SiteIdle == site = NewSite(<<"a">>, 80, NotFoundH) /\ SiteQuiet

Init == ServerInit /\ ProxyInit /\ SiteIdle
Next == ServerNext
Spec == Init /\ [][Next]_vars

\* Serve together with the requests that reach its serveMany tasks.
ServingSpec == Init /\ [][ServingNext]_vars

ProxySpec == Init /\ [][ProxyNext]_vars

SiteSpecInit == ServerInit /\ ProxyInit /\ SiteInit
SiteSpec == SiteSpecInit /\ [][SiteNext]_vars

\* Serve with the scheduling of an unbuffered channel: a blocked send and the
\* blocked receive of Serve meet.
FairSpec == Spec /\ WF_vars(\E i \in 1..Len(tasks) : ServeReceive(i))

(***************************************************************************)
(* Properties of Server.Serve.                                             *)
(***************************************************************************)
TaskIdx == 1..Len(tasks)
TasksOn(port) == {i \in TaskIdx : tasks[i].port = port}
ConfigKinds == {"mixed", "cert", "bind"}

\* The ports shared by sites that disagree on having a certificate pair.
MixedPorts ==
    {port \in PortsOf(sites) :
        \E i, j \in 1..Len(sites) :
            /\ sites[i].port = port
            /\ sites[j].port = port
            /\ sites[i].auth # sites[j].auth}

\* The start-up loop of Serve has ended, one way or another.
StartupOver == pc \in {"waiting", "returned", "panicked"}

\* No listener is bound and no task started for a port of mixed TLS usage.
NoListenerOnMixed == \A port \in MixedPorts : bound[port] = 0 /\ TasksOn(port) = {}

\* Once the mismatch is detected, no task is started and no group processed.
NothingAfterMixed ==
    [][ret.kind = "mixed" => Len(tasks') = Len(tasks) /\ pending' = pending]_vars

\* C1 as stated: with a port of mixed TLS usage, Serve ends by returning a
\* configuration error, no listener is ever bound for that port, and no
\* listener is started once the mismatch is detected.
C1_Original ==
    /\ (MixedPorts # {} /\ StartupOver) =>
            (pc = "returned" /\ ret.kind \in ConfigKinds /\ ret.via = "serve")
    /\ (pc # "config" => NoListenerOnMixed)

\* C1 amended: with a port of mixed TLS usage, Serve never completes its
\* start-up: it returns a configuration error, or it ends in the panic of a
\* duplicate registration in a group processed before; no listener is ever
\* bound for that port, and no listener is started once the mismatch is
\* detected.
C1_MixedAborts ==
    /\ []((MixedPorts # {} /\ StartupOver) =>
            \/ pc = "returned" /\ ret.kind \in ConfigKinds /\ ret.via = "serve"
            \/ pc = "panicked")
    /\ [](pc # "config" => NoListenerOnMixed)
    /\ [](ret.kind = "mixed" => pc = "returned" /\ ret.port \in MixedPorts)
    /\ NothingAfterMixed

\* The mismatch is detected while another port group is still unprocessed.
C1_Witness ==
    /\ pc = "returned"
    /\ ret.kind = "mixed"
    /\ pending \ {ret.port} # {}

\* The sites a task serves.
HandlerSites(task) ==
    IF task.handler.kind = "site"
    THEN {task.handler.site}
    ELSE {task.handler.p.proxy[k].site : k \in DOMAIN task.handler.p.proxy}

SitesOn(port) == {sites[i] : i \in {j \in 1..Len(sites) : sites[j].port = port}}

\* C2: at most one listener and one task per port, every site served only by
\* the task of its own port, and exactly one task per distinct port once the
\* start-up has completed without a configuration error.
C2_OneListenerPerPort ==
    /\ \A i, j \in TaskIdx : tasks[i].port = tasks[j].port => i = j
    /\ \A port \in Ports : bound[port] <= 1
    /\ \A i \in TaskIdx : \A s \in HandlerSites(tasks[i]) : s.port = tasks[i].port
    /\ \A i \in TaskIdx : tasks[i].port \in PortsOf(sites)
    /\ (pc = "waiting" \/ (pc = "returned" /\ ret.via = "chan")) =>
            \A port \in PortsOf(sites) :
                /\ Cardinality(TasksOn(port)) = 1
                /\ \A i \in TasksOn(port) : HandlerSites(tasks[i]) = SitesOn(port)

\* Two ports, one of them shared by two sites, each with its one task.
C2_Witness ==
    /\ pc = "waiting"
    /\ Len(tasks) = 2
    /\ \E i \in TaskIdx : tasks[i].fn = "serveMany" /\ Cardinality(HandlerSites(tasks[i])) = 2

Delivered == {i \in TaskIdx : tasks[i].state = "delivered"}
Sending == {i \in TaskIdx : tasks[i].state = "sending"}

\* C3: after a complete start-up Serve stays blocked while no task reports an
\* error; it returns the error of the one task whose send it received, and
\* only such an error; it returns once; and a report is eventually received.
C3_FirstErrorReturned ==
    /\ [][(pc = "waiting" /\ Sending = {}) => pc' = "waiting"]_vars
    /\ []((pc = "returned" /\ ret.via = "chan") =>
            /\ Cardinality(Delivered) = 1
            /\ \A i \in Delivered : tasks[i].err.kind # "none"
                                    /\ ret = [tasks[i].err EXCEPT !.via = "chan"])
    /\ [](Delivered # {} => pc = "returned" /\ ret.via = "chan")
    /\ [](pc = "waiting" => ret = NoErr)
    /\ [][pc = "returned" => pc' = "returned" /\ ret' = ret]_vars
    /\ ((pc = "waiting" /\ Sending # {}) ~> (pc = "returned"))

\* Serve has returned the first report while a second failed task is still
\* blocked on its send.
C3_Witness ==
    /\ pc = "returned"
    /\ ret.via = "chan"
    /\ Sending # {}

\* A certificate load or bind failure has happened, in Serve or in a task.
LoadOrBindFailure ==
    \/ ret.kind \in {"cert", "bind"}
    \/ \E i \in TaskIdx : tasks[i].err.kind \in {"cert", "bind"}

C5_NoPartialActivation ==
    /\ (ret.kind = "cert" /\ ret.via = "serve") =>
            /\ pc = "returned"
            /\ bound[ret.port] = 0
            /\ TasksOn(ret.port) = {}
            /\ \A i \in TaskIdx : HandlerSites(tasks[i]) \cap SitesOn(ret.port) = {}
    /\ \A i \in TaskIdx : (tasks[i].fn = "serveMany" /\ tasks[i].tls) =>
            /\ tasks[i].certs = 1..Len(Group(sites, tasks[i].port))
            /\ HandlerSites(tasks[i]) = SitesOn(tasks[i].port)

\* The pair of a site that is not the first of its group fails to load.
C5_Witness ==
    /\ ret.kind = "cert"
    /\ ret.via = "serve"
    /\ ret.idx > 1

(***************************************************************************)
(* Properties of the ReverseProxy.                                         *)
(***************************************************************************)
\* s ends with k, stated without strings.HasSuffix.
EndsWith(s, k) == \E n \in 0..Len(s) : SubSeq(s, n + 1, Len(s)) = k

HasColon(s) == \E i \in 1..Len(s) : s[i] = ":"

\* The host the routing goes by: the Host header itself when it has no port
\* separator, else the host part the split yields, if it yields one.
RoutedHost(rhost) ==
    IF HasColon(rhost)
    THEN LET sp == SplitHostPort(rhost) IN [ok |-> sp.ok, host |-> sp.host]
    ELSE [ok |-> TRUE, host |-> rhost]

\* The Host header with everything from its last ':' on cut off.
StripPort(rhost) ==
    IF HasColon(rhost)
    THEN SubSeq(rhost, 1, (CHOOSE i \in 1..Len(rhost) :
                              rhost[i] = ":" /\ \A j \in (i + 1)..Len(rhost) : rhost[j] # ":") - 1)
    ELSE rhost

MatchingKeys(host) == {k \in DOMAIN p.proxy : EndsWith(host, k)}

\* The outcomes ServeHTTP may have for a Host header, over all visiting orders.
PossibleRoutes(rhost) == {ProxyRoute(p, rhost, o) : o \in Orders(DOMAIN p.proxy)}

\* A registration call has just been made.
RegistrationStep == regOut'.called /\ ~regOut.called

\* C6: every key is mapped to the handler of its first registration; a call
\* for a key already present panics and leaves the map as it was; a call for
\* a fresh key adds that key alone; nothing else changes the map.
C6_FirstRegistrationKept ==
    /\ [](p.proxy = firstReg)
    /\ [][RegistrationStep =>
            IF regOut'.key \in DOMAIN p.proxy
            THEN regOut'.panicked /\ p' = p
            ELSE /\ ~regOut'.panicked
                 /\ DOMAIN p'.proxy = DOMAIN p.proxy \cup {regOut'.key}
                 /\ p'.proxy[regOut'.key] = regOut'.h
                 /\ \A k \in DOMAIN p.proxy : p'.proxy[k] = p.proxy[k]]_vars
    /\ [][~RegistrationStep => p'.proxy = p.proxy]_vars

\* A second registration of a key, with another handler, has panicked and the
\* first handler is still the one mapped.
C6_Witness ==
    /\ regOut.called
    /\ regOut.panicked
    /\ p.proxy[regOut.key] # regOut.h

\* A request whose routed host ends with a registered key invokes exactly one
\* handler, registered under a key the host ends with, and not the fallback.
RoutesToMatchingKey ==
    (resp.served /\ RoutedHost(resp.host).ok /\ MatchingKeys(RoutedHost(resp.host).host) # {}) =>
        /\ Len(resp.invoked) = 1
        /\ resp.invoked[1].via = "registered"
        /\ resp.invoked[1].key \in MatchingKeys(RoutedHost(resp.host).host)
        /\ resp.invoked[1].h = p.proxy[resp.invoked[1].key]

\* C7 as stated: the above, and a Host header with a (non-empty) port suffix
\* that splits routes as the same header with the suffix removed.
C7_Original ==
    /\ RoutesToMatchingKey
    /\ (resp.served /\ HasColon(resp.host) /\ SplitHostPort(resp.host).ok
            /\ SplitHostPort(resp.host).port # <<>>) =>
            PossibleRoutes(resp.host) = PossibleRoutes(StripPort(resp.host))

\* C7 amended: the above, and a Host header with a port suffix that splits
\* routes as the same header with the suffix removed, unless the header
\* starts with '[' (a bracketed literal, whose brackets the split removes and
\* which without a port is routed by its bracketed text).
C7_SuffixRouting ==
    /\ RoutesToMatchingKey
    /\ (resp.served /\ HasColon(resp.host) /\ SplitHostPort(resp.host).ok
            /\ resp.host[1] # "[") =>
            /\ PossibleRoutes(resp.host) = PossibleRoutes(StripPort(resp.host))
            /\ resp.invoked \in PossibleRoutes(StripPort(resp.host))

\* Key "a" alone is registered and host "ba", which merely ends with it
\* textually, is routed to its handler, with a port suffix as well.
C7_Witness ==
    /\ resp.served
    /\ resp.host = <<"b", "a", ":", "b">>
    /\ DOMAIN p.proxy = {<<"a">>}
    /\ Len(resp.invoked) = 1
    /\ resp.invoked[1].h = p.proxy[<<"a">>]

\* The request being served has a Host header with a port separator that
\* cannot be split.
Unsplittable == resp.served /\ HasColon(resp.host) /\ ~SplitHostPort(resp.host).ok

\* C8 as stated: a Host header with a port separator that cannot be split is
\* routed to the not-found handler and to no registered handler.
C8_Original ==
    Unsplittable =>
        /\ Len(resp.invoked) = 1
        /\ resp.invoked[1].via = "notfound"
        /\ resp.invoked[1].h # NilH

\* C8 amended: such a request is routed to the not-found handler when one is
\* configured, and invokes no handler at all when none is; in neither case
\* is a registered handler invoked, whatever keys the raw header ends with.
C8_UnsplittableToNotFound ==
    Unsplittable =>
        IF p.NotFound # NilH
        THEN resp.invoked = <<Invoke("notfound", <<>>, p.NotFound)>>
        ELSE resp.invoked = <<>>

\* An unsplittable Host header that ends with a registered key went to the
\* configured not-found handler.
C8_Witness ==
    /\ Unsplittable
    /\ MatchingKeys(resp.host) # {}
    /\ p.NotFound # NilH
    /\ Len(resp.invoked) = 1

\* C9: a request whose routed host ends with no registered key invokes the
\* not-found handler once and nothing else when one is configured, and no
\* handler at all when none is.
C9_NoMatchFallback ==
    (resp.served /\ RoutedHost(resp.host).ok /\ MatchingKeys(RoutedHost(resp.host).host) = {}) =>
        IF p.NotFound # NilH
        THEN resp.invoked = <<Invoke("notfound", <<>>, p.NotFound)>>
        ELSE resp.invoked = <<>>

\* Keys are registered, none matches, no not-found handler: nothing is invoked.
C9_Witness ==
    /\ resp.served
    /\ RoutedHost(resp.host).ok
    /\ DOMAIN p.proxy # {}
    /\ MatchingKeys(RoutedHost(resp.host).host) = {}
    /\ p.NotFound = NilH
    /\ resp.invoked = <<>>

(***************************************************************************)
(* Properties of the Site.                                                 *)
(***************************************************************************)
\* The entries of the chain whose predicate holds of the path.
MatchingEntries(path) ==
    {i \in 1..Len(site.handlers) : CallMatch(site.handlers[i].Match, path)}

\* C10: routing invokes exactly one handler: that of the matching entry of
\* lowest index, or the Site's not-found handler when no entry matches.
C10_FirstMatchWins ==
    siteOut.served =>
        /\ ~siteOut.panicked
        /\ Len(siteOut.invoked) = 1
        /\ LET M == MatchingEntries(siteOut.path) IN
           IF M = {}
           THEN siteOut.invoked[1] = SiteInvoke(0, site.notFound) /\ site.notFound # NilH
           ELSE /\ siteOut.invoked[1].idx \in M
                /\ \A i \in M : siteOut.invoked[1].idx <= i
                /\ siteOut.invoked[1].h = site.handlers[siteOut.invoked[1].idx].Handler

\* The documented meaning of an entry: the request path is tested against the
\* pattern the entry was registered with.
PathMatchesPattern(matchFunc, path) ==
    CASE matchFunc.m = "strings.HasPrefix" ->
            /\ Len(matchFunc.s1) <= Len(path)
            /\ SubSeq(path, 1, Len(matchFunc.s1)) = matchFunc.s1
      [] matchFunc.m = "strings.HasSuffix" ->
            /\ Len(matchFunc.s1) <= Len(path)
            /\ SubSeq(path, Len(path) - Len(matchFunc.s1) + 1, Len(path)) = matchFunc.s1
      [] matchFunc.m = "strings.Contains" ->
            \E k \in 0..(Len(path) - Len(matchFunc.s1)) :
                SubSeq(path, k + 1, k + Len(matchFunc.s1)) = matchFunc.s1

SubstringKinds == {"strings.HasPrefix", "strings.HasSuffix", "strings.Contains"}

\* The chain [has-prefix("/") -> B, always() -> C].
PrefixThenAlways ==
    <<Matcher(makeMatchFunc(<<"/">>, "strings.HasPrefix"), FuncH("B")),
      Matcher(AlwaysFunc, FuncH("C"))>>

\* C11: an entry registered with HasPrefix, HasSuffix or Contains for pattern
\* p matches a request path exactly when the path starts with, ends with or
\* contains p; so the chain [has-prefix("/") -> B, always() -> C] dispatches
\* every path that starts with "/" to B and every other path to C.
C11_PathTestedAgainstPattern ==
    siteOut.served =>
        /\ \A i \in 1..Len(site.handlers) :
              site.handlers[i].Match.m \in SubstringKinds =>
                  (CallMatch(site.handlers[i].Match, siteOut.path)
                      <=> PathMatchesPattern(site.handlers[i].Match, siteOut.path))
        /\ site.handlers = PrefixThenAlways =>
              siteOut.invoked =
                  IF Len(siteOut.path) >= 1 /\ siteOut.path[1] = "/"
                  THEN <<SiteInvoke(1, FuncH("B"))>>
                  ELSE <<SiteInvoke(2, FuncH("C"))>>

\* net/http's NotFoundHandler, the documented stand-in for a nil not-found handler.
StdNotFound == FuncH("http.NotFound")

\* C12: a Site created with a nil not-found handler answers a request that
\* matches no entry with the standard not-found response: the call does not
\* panic and it does not end without invoking a handler.
C12_NilNotFoundDefaults ==
    (siteOut.served /\ site.notFound = NilH /\ MatchingEntries(siteOut.path) = {}) =>
        /\ ~siteOut.panicked
        /\ siteOut.invoked = <<SiteInvoke(0, StdNotFound)>>

\* The match function each pattern-taking registration binds its patterns to.
PatternOps == {"Equals", "EqualFold", "Contains", "HasPrefix", "HasSuffix"}
OpFunc(op) ==
    CASE op = "Equals" -> "stringEquals"
      [] op = "EqualFold" -> "strings.EqualFold"
      [] op = "Contains" -> "strings.Contains"
      [] op = "HasPrefix" -> "strings.HasPrefix"
      [] op = "HasSuffix" -> "strings.HasSuffix"

\* The step is a pattern-taking registration call.
PatternCallStep == ~siteReg.called /\ siteReg'.called /\ siteReg'.op \in PatternOps

\* C15: a pattern-taking registration with n patterns appends exactly n
\* entries to the end of the chain, in the order of the patterns and all bound
\* to the given handler; the entries registered before keep their place; with
\* no pattern the chain is unchanged; and the call does not fail.
C15_AppendsInOrder ==
    [][PatternCallStep =>
        LET n == Len(siteReg'.patterns)
            old == site.handlers
            new == site'.handlers
        IN  /\ Len(new) = Len(old) + n
            /\ \A i \in 1..Len(old) : new[i] = old[i]
            /\ \A k \in 1..n :
                  new[Len(old) + k] =
                      Matcher(makeMatchFunc(siteReg'.patterns[k], OpFunc(siteReg'.op)),
                              siteReg'.handler)
            /\ n = 0 => site' = site
            /\ site'.notFound = site.notFound
            /\ siteOut' = NoOut]_vars

\* A call with two different patterns has returned.
C15_Witness ==
    /\ siteReg.called
    /\ siteReg.op \in PatternOps
    /\ Len(siteReg.patterns) = 2
    /\ siteReg.patterns[1] # siteReg.patterns[2]
    /\ Len(site.handlers) = 2

(***************************************************************************)
(* Properties of the listener tasks Serve starts.                          *)
(***************************************************************************)
\* The sites of the group Serve builds for the port, in Add order.
GroupOf(port) == Group(sites, port)

\* C13: the one listener of a TLS group of several sites offers the
\* alternate protocol (SPDY) in the negotiation when a site of the group has
\* it enabled.
C13_AggregateOffersSPDY ==
    \A i \in TaskIdx :
        (/\ tasks[i].fn = "serveMany"
         /\ tasks[i].tls
         /\ \E k \in 1..Len(GroupOf(tasks[i].port)) : GroupOf(tasks[i].port)[k].spdy)
        => "spdy" \in tasks[i].protos

\* The ports that one site alone listens on.
SingleSitePorts == {port \in PortsOf(sites) : Len(GroupOf(port)) = 1}

\* Every value of a site's port, credential pair and SPDY field.
AnySite == [name : Keys, port : Ports, auth : BOOLEAN, spdy : BOOLEAN]

\* C14: a group of one site gets exactly one task once Serve has processed
\* it; the task serves without TLS when the site has no certificate pair,
\* with TLS when it has one, and with TLS and SPDY when it has one and asks
\* for SPDY; its handler is the site itself, not a ReverseProxy.
C14_SingleSiteMode ==
    /\ \A port \in SingleSitePorts :
          LET s == GroupOf(port)[1] IN
          /\ Cardinality(TasksOn(port)) <= 1
          /\ (pc # "config" /\ port \notin pending) => Cardinality(TasksOn(port)) = 1
          /\ \A i \in TasksOn(port) :
                /\ tasks[i].handler = SiteH(s)
                /\ tasks[i].handler.kind # "proxy"
                /\ ~s.auth => (tasks[i].fn = "serveHTTP" /\ ~tasks[i].tls /\ tasks[i].protos = {})
                /\ (s.auth /\ ~s.spdy) =>
                        (tasks[i].fn = "serveHTTPS" /\ tasks[i].tls /\ "spdy" \notin tasks[i].protos)
                /\ (s.auth /\ s.spdy) =>
                        (tasks[i].fn = "serveSPDY" /\ tasks[i].tls /\ "spdy" \in tasks[i].protos)
    /\ \A s \in AnySite :
          /\ ~s.auth => (SingleTask(s).fn = "serveHTTP" /\ ~SingleTask(s).tls)
          /\ SingleTask(s).handler = SiteH(s)
          /\ SingleTask(s).port = s.port

\* A single site with a certificate pair and SPDY is served by serveSPDY.
C14_Witness ==
    \E i \in TaskIdx :
        /\ tasks[i].port \in SingleSitePorts
        /\ tasks[i].fn = "serveSPDY"
        /\ tasks[i].state = "serving"

\* C16: Serve has no rollback: a step of Serve, its return included, removes
\* no task and changes no task, except that its receive marks the one task
\* whose error it takes; every other change of a task is the task's own step.
\* So the tasks started before a configuration error keep serving.
C16_NoRollback ==
    [][(/\ Len(tasks') >= Len(tasks)
        /\ \A i \in 1..Len(tasks) :
             tasks'[i] # tasks[i] =>
                 \/ pc' = pc /\ ret' = ret /\ pending' = pending
                 \/ /\ tasks[i].state = "sending"
                    /\ tasks'[i] = [tasks[i] EXCEPT !.state = "delivered"]
                    /\ ret'.via = "chan")]_vars

\* Serve has returned the configuration error of one port while the task of
\* another port, started before, is serving on its bound listener.
C16_Witness ==
    /\ pc = "returned"
    /\ ret.via = "serve"
    /\ ret.kind \in ConfigKinds
    /\ \E i \in TaskIdx :
        /\ tasks[i].port # ret.port
        /\ tasks[i].state = "serving"
        /\ bound[tasks[i].port] = 1

\* The ports on which two sites have the same name.
DupPorts ==
    {port \in PortsOf(sites) :
        \E i, j \in 1..Len(GroupOf(port)) :
            i # j /\ GroupOf(port)[i].name = GroupOf(port)[j].name}

\* C18: for a port on which two sites have the same name no listener is ever
\* bound and no task (so no certificate set) is ever started; and the panic
\* of the duplicate registration happens inside Serve, in the set-up of such
\* a group, which is then left unprocessed.
C18_DuplicateAborts ==
    /\ \A port \in DupPorts : bound[port] = 0 /\ TasksOn(port) = {}
    /\ pc = "panicked" =>
          /\ ret = NoErr
          /\ \E port \in DupPorts \cap pending : ~Mixed(GroupOf(port))

\* Serve has panicked on the duplicate name of a TLS group.
C18_Witness ==
    /\ pc = "panicked"
    /\ \E port \in DupPorts \cap pending : GroupOf(port)[1].auth /\ bound[port] = 0

\* C19: Serve never returns a nil error; a task that has ended without an
\* error has sent nothing and never does; and with no sites Serve starts no
\* task and never returns.
C19_NeverReturnsNil ==
    /\ [](pc = "returned" => ret.kind # "none")
    /\ [](\A i \in TaskIdx :
            /\ tasks[i].state = "exited" => tasks[i].err = NoErr
            /\ tasks[i].state \in {"sending", "delivered"} => tasks[i].err.kind # "none")
    /\ [][\A i \in 1..Len(tasks) : tasks[i].state = "exited" => tasks'[i] = tasks[i]]_vars
    /\ []((sites = <<>> /\ pc # "config") =>
            (tasks = <<>> /\ pc \in {"startup", "waiting"} /\ ret = NoErr))

\* Every task has ended without an error and Serve is still blocked.
C19_Witness ==
    /\ pc = "waiting"
    /\ tasks # <<>>
    /\ \A i \in TaskIdx : tasks[i].state = "exited"

\* The tasks whose serving has ended with an error.
Failed == {i \in TaskIdx : tasks[i].err.kind # "none"}

\* C20: at most one error is ever received from errChan; a failed task is
\* blocked on its send unless Serve received its error; and once Serve has
\* returned, with a received error or a configuration error, a task blocked
\* on its send stays blocked and Serve's result no longer changes.
C20_OneErrorReceived ==
    /\ [](Cardinality(Delivered) <= 1)
    /\ [](\A i \in Failed : tasks[i].state \in {"sending", "delivered"})
    /\ [](ret.via = "serve" => Delivered = {})
    /\ [][(pc \in {"returned", "panicked"}) =>
            (/\ pc' = pc
             /\ ret' = ret
             /\ \A i \in 1..Len(tasks) : tasks[i].state = "sending" => tasks'[i] = tasks[i])]_vars

\* Serve has returned a configuration error and a task that failed later is
\* blocked on its send.
C20_Witness ==
    /\ pc = "returned"
    /\ ret.via = "serve"
    /\ Sending # {}

\* The registrations Serve makes for the group of a port.
GroupRegistrations(port) ==
    {<<GroupOf(port)[k].name, SiteH(GroupOf(port)[k])>> : k \in 1..Len(GroupOf(port))}

\* C17: when the task of a group of several sites exists, its ReverseProxy
\* holds the registration of every site of the group; no step afterwards,
\* the routing of a request included, writes to the proxy's map.
C17_RegistrationsBeforeServing ==
    /\ [](\A i \in TaskIdx :
            tasks[i].fn = "serveMany" =>
                {<<k, tasks[i].handler.p.proxy[k]>> : k \in DOMAIN tasks[i].handler.p.proxy}
                    = GroupRegistrations(tasks[i].port))
    /\ [][\A i \in 1..Len(tasks) : tasks'[i].handler = tasks[i].handler]_vars
    /\ [][(resp' # resp) => (tasks' = tasks /\ p' = p)]_vars

\* A serveMany task has routed a request to one of its two sites.
C17_Witness ==
    /\ resp.served
    /\ Len(resp.invoked) = 1
    /\ resp.invoked[1].via = "registered"
    /\ \E i \in TaskIdx :
        /\ tasks[i].fn = "serveMany"
        /\ tasks[i].state = "serving"
        /\ Cardinality(DOMAIN tasks[i].handler.p.proxy) = 2

\* The names of the sites of the group that task i serves.
GroupNames(i) == {GroupOf(tasks[i].port)[k].name : k \in 1..Len(GroupOf(tasks[i].port))}

\* The request routed by a task has a host that cannot be split, or one that
\* ends with no name of the task's group.
NoSiteForHost ==
    \/ ~RoutedHost(resp.host).ok
    \/ \A n \in GroupNames(resp.task) : ~EndsWith(RoutedHost(resp.host).host, n)

\* C21: the ReverseProxy of a serveMany task has no not-found handler, so a
\* request on a shared port whose host ends with no name of the group, or
\* cannot be split, invokes no handler at all.
C21_NoFallbackOnSharedPort ==
    /\ \A i \in TaskIdx : tasks[i].fn = "serveMany" => tasks[i].handler.p.NotFound = NilH
    /\ (resp.served /\ NoSiteForHost) => resp.invoked = <<>>

\* A task of two sites has answered a request for a host that ends with the
\* name of neither, and no handler has run.
C21_Witness ==
    /\ resp.served
    /\ RoutedHost(resp.host).ok
    /\ Cardinality(GroupNames(resp.task)) = 2
    /\ NoSiteForHost
    /\ resp.invoked = <<>>

====
